---- MODULE Spec2Model ----
(***************************************************************************)
(* A model of the rush HTTP router (router.go, trie.go).                   *)
(*                                                                         *)
(* Strings are sequences of one-character strings, so that the code's      *)
(* byte-level scans (needsCleaning, path.Clean, node.match, splitPath)     *)
(* are modelled by what they do.  A trie node lives at an address; the     *)
(* allocator hands out, for the node created under parent p for a segment, *)
(* the address p \o "/" \o label, so that two tries with the same shape    *)
(* are the same value whatever the order of registration.                  *)
(***************************************************************************)
EXTENDS Integers, Sequences, FiniteSets, TLC

VARIABLES
    nodes,      \* the heap of trie nodes: address -> node  (trie.go: type node)
    routers,    \* the Router objects created so far, routers[1] is the root
    resp,       \* what the most recent ServeHTTP call did (NoResp after a registration call)
    last,       \* the most recent call: its name, the router it was made on, the panic it raised
    registered, \* history: the full patterns that insert accepted
    regs,       \* history: for a node and a method, the registration that set its handler:
                \* the router and the pattern, handler and middleware of the Handle call
    scope,      \* history: for each router, the middleware put on it and on the
                \* sub-routers it descends from, in the order of the calls
    encl,       \* history: for each router, the prefixes given to the GroupWithPrefix
                \* calls it descends from, outermost first, one after the other
    made,       \* the caller: how many middleware values it has made so far
    conc        \* requests served at the same time: where each goroutine is in
                \* ServeHTTP, and the words of r.handler and of the allowHeader
                \* fields that a store in progress has not written yet

vars == <<nodes, routers, resp, last, registered, regs, scope, encl, made, conc>>

-----------------------------------------------------------------------------
(* Bounds of the model *)

MaxPathLen == 4
MaxRouters == 3
MaxRoutes == 2

-----------------------------------------------------------------------------
(* Strings *)

Str0 == <<>>
SLASH == "/"

\* path[i] with the code's 0-based index
At(s, i) == s[i + 1]

\* s[i:j] with the code's 0-based half-open bounds
Slice(s, i, j) == SubSeq(s, i + 1, j)

HasPrefix(s, p) == Len(s) >= Len(p) /\ SubSeq(s, 1, Len(p)) = p
HasSuffix(s, p) == Len(s) >= Len(p) /\ SubSeq(s, Len(s) - Len(p) + 1, Len(s)) = p

\* all strings over chars of length lo..hi
Strings(chars, lo, hi) == UNION { [1..k -> chars] : k \in lo..hi }

NIL == <<"nil">>

-----------------------------------------------------------------------------
(* trie.go *)

ROOTADDR == <<>>

newNode(segment) ==
    [ segment |-> segment,
      children |-> <<>>,          \* map[string]*node, empty
      handlers |-> <<>>,          \* map[string]http.Handler, empty
      paramChild |-> NIL,
      wildcardChild |-> NIL,
      allowHeader |-> Str0 ]

\* strings.FieldsFunc(path, r == '/'): the maximal runs of non-slash characters
RECURSIVE fields(_, _, _)
fields(path, i, cur) ==
    IF i >= Len(path)
    THEN IF cur = Str0 THEN <<>> ELSE <<cur>>
    ELSE IF At(path, i) = SLASH
         THEN (IF cur = Str0 THEN <<>> ELSE <<cur>>) \o fields(path, i + 1, Str0)
         ELSE fields(path, i + 1, Append(cur, At(path, i)))

splitPath(path) == fields(path, 0, Str0)

\* the address the allocator gives the child of n for an edge label
ChildAddr(n, label) == n \o <<SLASH>> \o label

PARAMLABEL == <<"{", "}">>
STAR == <<"*">>

NoPanic == "none"

\* variant of nextOrCreate: the name of the parameter child there is not compared
nextOrCreateAnyName(ns, n, segment) ==
    IF HasPrefix(segment, <<"{">>) /\ HasSuffix(segment, <<"}">>)
    THEN LET name == Slice(segment, 1, Len(segment) - 1)
             pc == ChildAddr(n, PARAMLABEL)
             ns1 == IF ns[n].paramChild = NIL
                    THEN [ns EXCEPT ![n].paramChild = pc] @@ (pc :> newNode(name))
                    ELSE ns
         IN IF name = Str0
            THEN [nodes |-> ns, next |-> NIL, panic |-> "empty parameter name"]
            ELSE [nodes |-> ns1, next |-> ns1[n].paramChild, panic |-> NoPanic]
    ELSE IF segment = STAR
    THEN LET wc == ChildAddr(n, STAR)
             ns1 == IF ns[n].wildcardChild = NIL
                    THEN [ns EXCEPT ![n].wildcardChild = wc] @@ (wc :> newNode(STAR))
                    ELSE ns
         IN [nodes |-> ns1, next |-> ns1[n].wildcardChild, panic |-> NoPanic]
    ELSE IF segment \in DOMAIN ns[n].children
    THEN [nodes |-> ns, next |-> ns[n].children[segment], panic |-> NoPanic]
    ELSE LET c == ChildAddr(n, segment)
         IN [nodes |-> [ns EXCEPT ![n].children = (segment :> c) @@ @] @@ (c :> newNode(segment)),
             next |-> c, panic |-> NoPanic]

\* node.nextOrCreate, on the heap ns: the heap after it, the node returned, the panic raised
nextOrCreate(ns, n, segment) ==
    IF HasPrefix(segment, <<"{">>) /\ HasSuffix(segment, <<"}">>)
    THEN LET name == Slice(segment, 1, Len(segment) - 1)
             pc == ChildAddr(n, PARAMLABEL)
             ns1 == IF ns[n].paramChild = NIL
                    THEN [ns EXCEPT ![n].paramChild = pc] @@ (pc :> newNode(name))
                    ELSE ns
         IN IF name = Str0
            THEN [nodes |-> ns, next |-> NIL, panic |-> "empty parameter name"]
            ELSE IF ns1[ns1[n].paramChild].segment # name
                 THEN [nodes |-> ns1, next |-> NIL, panic |-> "parameter name conflict"]
                 ELSE [nodes |-> ns1, next |-> ns1[n].paramChild, panic |-> NoPanic]
    ELSE IF segment = STAR
    THEN LET wc == ChildAddr(n, STAR)
             ns1 == IF ns[n].wildcardChild = NIL
                    THEN [ns EXCEPT ![n].wildcardChild = wc] @@ (wc :> newNode(STAR))
                    ELSE ns
         IN [nodes |-> ns1, next |-> ns1[n].wildcardChild, panic |-> NoPanic]
    ELSE IF segment \in DOMAIN ns[n].children
    THEN [nodes |-> ns, next |-> ns[n].children[segment], panic |-> NoPanic]
    ELSE LET c == ChildAddr(n, segment)
         IN [nodes |-> [ns EXCEPT ![n].children = (segment :> c) @@ @] @@ (c :> newNode(segment)),
             next |-> c, panic |-> NoPanic]

\* the loop of trie.insert over segments[i..], from node cur
RECURSIVE insertWalk(_, _, _, _)
insertWalk(ns, cur, segments, i) ==
    IF i >= Len(segments)
    THEN [nodes |-> ns, next |-> cur, panic |-> NoPanic]
    ELSE IF At(segments, i) = STAR /\ i # Len(segments) - 1
         THEN [nodes |-> ns, next |-> NIL, panic |-> "wildcard not at the end"]
         ELSE LET r == nextOrCreate(ns, cur, At(segments, i))
              IN IF r.panic # NoPanic THEN r
                 ELSE insertWalk(r.nodes, r.next, segments, i + 1)

\* variant of the loop over the methods: a method the node has keeps its handler
RECURSIVE setHandlersKeepFirst(_, _, _, _)
setHandlersKeepFirst(hs, handler, methods, i) ==
    IF i >= Len(methods) THEN hs
    ELSE setHandlersKeepFirst(hs @@ (At(methods, i) :> handler), handler, methods, i + 1)

\* the loop of trie.insert over methods[i..]: cur.handlers[method] = handler
RECURSIVE setHandlers(_, _, _, _)
setHandlers(hs, handler, methods, i) ==
    IF i >= Len(methods) THEN hs
    ELSE setHandlers((At(methods, i) :> handler) @@ hs, handler, methods, i + 1)

\* trie.insert: the heap after it and the panic raised (the nodes created before a
\* panic stay in the heap)
insert(ns, pattern, handler, methods) ==
    LET w == insertWalk(ns, ROOTADDR, splitPath(pattern), 0)
    IN IF w.panic # NoPanic
       THEN [nodes |-> w.nodes, cur |-> NIL, panic |-> w.panic]
       ELSE [nodes |-> [w.nodes EXCEPT ![w.next].handlers = setHandlers(@, handler, methods, 0)],
             cur |-> w.next, panic |-> NoPanic]

\* Request.SetPathValue / Request.PathValue on the request's map of path values
SetPathValue(pv, name, value) == (name :> value) @@ pv
PathValue(pv, name) == IF name \in DOMAIN pv THEN pv[name] ELSE Str0

\* the scan "for end < len(path) && path[end] != '/' { end++ }"
RECURSIVE segmentEnd(_, _)
segmentEnd(path, end) ==
    IF end < Len(path) /\ At(path, end) # SLASH THEN segmentEnd(path, end + 1) ELSE end

NoMatch(pv) == [m |-> NIL, pv |-> pv]

\* the last step of node.match: the wildcard child, or nil
matchWildcard(ns, n, pv) ==
    IF ns[n].wildcardChild # NIL THEN [m |-> ns[n].wildcardChild, pv |-> pv] ELSE NoMatch(pv)

\* node.match when the path is used up: the node if it has handlers, or nil
\* (variant: a node without handlers gives way to its wildcard child)
matchEndBarePrefix(ns, n, pv) ==
    IF DOMAIN ns[n].handlers # {} THEN [m |-> n, pv |-> pv]
    ELSE IF ns[n].wildcardChild # NIL THEN [m |-> ns[n].wildcardChild, pv |-> pv]
    ELSE NoMatch(pv)

\* (variant: the node is returned also when it has no handler)
matchEndAnyNode(ns, n, pv) == [m |-> n, pv |-> pv]

matchEnd(ns, n, pv) ==
    IF DOMAIN ns[n].handlers # {} THEN [m |-> n, pv |-> pv] ELSE NoMatch(pv)

\* variant of match: what the exact child returns is final, also when it is nil
RECURSIVE matchNoBacktrack(_, _, _, _, _)
matchNoBacktrack(ns, n, i, path, pv) ==
    IF i >= Len(path) THEN matchEnd(ns, n, pv)
    ELSE LET end == segmentEnd(path, i)
             segment == Slice(path, i, end)
             next == end + 1
         IN IF segment \in DOMAIN ns[n].children
            THEN matchNoBacktrack(ns, ns[n].children[segment], next, path, pv)
            ELSE IF ns[n].paramChild # NIL
                 THEN LET pc == ns[n].paramChild
                          r2 == matchNoBacktrack(ns, pc, next, path,
                                                 SetPathValue(pv, ns[pc].segment, segment))
                      IN IF r2.m # NIL THEN r2
                         ELSE matchWildcard(ns, n, SetPathValue(r2.pv, ns[pc].segment, Str0))
                 ELSE matchWildcard(ns, n, pv)

\* variant of match: the parameter child is tried before the exact child
RECURSIVE matchParamFirst(_, _, _, _, _)
matchParamFirst(ns, n, i, path, pv) ==
    IF i >= Len(path) THEN matchEnd(ns, n, pv)
    ELSE LET end == segmentEnd(path, i)
             segment == Slice(path, i, end)
             next == end + 1
             pc == ns[n].paramChild
             r1 == IF pc # NIL
                   THEN matchParamFirst(ns, pc, next, path,
                                        SetPathValue(pv, ns[pc].segment, segment))
                   ELSE NoMatch(pv)
             pv1 == IF pc # NIL THEN SetPathValue(r1.pv, ns[pc].segment, Str0) ELSE pv
         IN IF r1.m # NIL THEN r1
            ELSE LET r2 == IF segment \in DOMAIN ns[n].children
                           THEN matchParamFirst(ns, ns[n].children[segment], next, path, pv1)
                           ELSE NoMatch(pv1)
                 IN IF r2.m # NIL THEN r2 ELSE matchWildcard(ns, n, r2.pv)

\* node.match on the heap ns: the node returned (NIL for nil) and the request's path
\* values after the call
RECURSIVE match(_, _, _, _, _)
match(ns, n, i, path, pv) ==
    IF i >= Len(path)
    THEN matchEnd(ns, n, pv)
    ELSE LET end == segmentEnd(path, i)
             segment == Slice(path, i, end)
             next == end + 1
             r1 == IF segment \in DOMAIN ns[n].children
                   THEN match(ns, ns[n].children[segment], next, path, pv)
                   ELSE NoMatch(pv)
         IN IF r1.m # NIL THEN r1
            ELSE IF ns[n].paramChild # NIL
                 THEN LET pc == ns[n].paramChild
                          r2 == match(ns, pc, next, path,
                                      SetPathValue(r1.pv, ns[pc].segment, segment))
                      IN IF r2.m # NIL THEN r2
                         ELSE matchWildcard(ns, n, SetPathValue(r2.pv, ns[pc].segment, Str0))
                 ELSE matchWildcard(ns, n, r1.pv)

\* trie.lookup
lookup(ns, path, pv) == match(ns, ROOTADDR, 1, path, pv)

-----------------------------------------------------------------------------
(* path.Clean of the standard library, for a rooted path (router.go calls it on  *)
(* the request's URL path)                                                        *)

\* "out.w--; for out.w > dotdot && out.index(out.w) != '/' { out.w-- }", dotdot = 1
RECURSIVE cleanBack(_, _)
cleanBack(out, w) ==
    IF w > 1 /\ At(out, w) # SLASH THEN cleanBack(out, w - 1) ELSE w

RECURSIVE cleanLoop(_, _, _)
cleanLoop(path, r, out) ==
    LET n == Len(path) IN
    IF r >= n THEN out
    ELSE IF At(path, r) = SLASH
         THEN cleanLoop(path, r + 1, out)
    ELSE IF At(path, r) = "." /\ (r + 1 = n \/ At(path, r + 1) = SLASH)
         THEN cleanLoop(path, r + 1, out)
    ELSE IF At(path, r) = "." /\ At(path, r + 1) = "."
            /\ (r + 2 = n \/ At(path, r + 2) = SLASH)
         THEN cleanLoop(path, r + 2,
                        IF Len(out) > 1
                        THEN Slice(out, 0, cleanBack(out, Len(out) - 1))
                        ELSE out)
    ELSE LET end == segmentEnd(path, r)
         IN cleanLoop(path, end,
                      (IF Len(out) # 1 THEN Append(out, SLASH) ELSE out) \o Slice(path, r, end))

Clean(path) == cleanLoop(path, 1, <<SLASH>>)

-----------------------------------------------------------------------------
(* router.go *)

\* variant of needsCleaning: a '.' after a slash is not looked for
needsCleaningSlashesOnly(path) ==
    LET n == Len(path) - 1
    IN \/ n > 1 /\ At(path, n) = SLASH
       \/ \E i \in 0..(n - 1) : At(path, i) = SLASH /\ At(path, i + 1) = SLASH

needsCleaning(path) ==
    LET n == Len(path) - 1
    IN \/ n > 1 /\ At(path, n) = SLASH
       \/ \E i \in 0..(n - 1) :
            At(path, i) = SLASH /\ (At(path, i + 1) = SLASH \/ At(path, i + 1) = ".")

ROOT == 1

\* a handler is the list of its layers, outermost first: the middleware wrapped
\* around it, then the function at its core; no handler (nil) is the empty list
NILH == <<>>

\* Middleware m applied to a handler: m's logic around a call of next
Wrap(m, next) == <<m>> \o next

allMethods == <<"GET", "HEAD", "POST", "PUT", "PATCH", "DELETE", "CONNECT", "OPTIONS", "TRACE">>

\* New()
New ==
    [ NotFound |-> <<"NotFound">>,
      MethodNotAllowed |-> <<"MethodNotAllowed">>,
      AutoOptions |-> <<"AutoOptions">>,
      RedirectTrailingSlash |-> FALSE,
      middlewares |-> <<>>,
      prefix |-> Str0,
      handler |-> NILH,
      isRoot |-> TRUE ]

\* &Router{routes: r.routes, prefix: prefix, middlewares: middlewares}
SubRouter(prefix, middlewares) ==
    [ NotFound |-> NILH,
      MethodNotAllowed |-> NILH,
      AutoOptions |-> NILH,
      RedirectTrailingSlash |-> FALSE,
      middlewares |-> middlewares,
      prefix |-> prefix,
      handler |-> NILH,
      isRoot |-> FALSE ]

\* chain: "for i := len(middlewares) - 1; i >= 0; i-- { handler = middlewares[i](handler) }"
RECURSIVE chainLoop(_, _, _)
chainLoop(middlewares, i, handler) ==
    IF i >= 0 THEN chainLoop(middlewares, i - 1, Wrap(At(middlewares, i), handler))
    ELSE handler

\* variant of chain: the loop runs from the first middleware to the last
RECURSIVE chainForwardLoop(_, _, _)
chainForwardLoop(middlewares, i, handler) ==
    IF i < Len(middlewares)
    THEN chainForwardLoop(middlewares, i + 1, Wrap(At(middlewares, i), handler))
    ELSE handler

chainForward(middlewares, handler) == chainForwardLoop(middlewares, 0, handler)

chain(middlewares, handler) == chainLoop(middlewares, Len(middlewares) - 1, handler)

\* variant of cloneChain: the root's middleware is copied like any other router's
cloneChainOfRootToo(r) == r.middlewares

\* Router.cloneChain
cloneChain(r) == IF r.isRoot THEN <<>> ELSE r.middlewares

\* variant of dispatchHandler: the root's middleware is not wrapped around handleRequest
dispatchHandlerBare(r) ==
    IF r.handler = NILH THEN <<"handleRequest">> ELSE r.handler

\* "if r.handler == nil { r.handler = chain(r.middlewares, http.HandlerFunc(r.handleRequest)) }":
\* the value of r.handler after it
dispatchHandler(r) ==
    IF r.handler = NILH THEN chain(r.middlewares, <<"handleRequest">>) ELSE r.handler

\* strings.ToUpper on the method tokens of the model
ToUpper(m) ==
    CASE m = "get" -> "GET"
      [] m = "head" -> "HEAD"
      [] m = "post" -> "POST"
      [] m = "options" -> "OPTIONS"
      [] OTHER -> m

Contains(s, x) == \E i \in 1..Len(s) : s[i] = x

\* variant of handleMethods: HEAD is not added to GET
handleMethodsNoHead(methods) ==
    LET up == [i \in 1..Len(methods) |-> ToUpper(methods[i])]
    IN IF Len(up) = 0 THEN allMethods ELSE up

\* the methods Handle registers: upper-cased, HEAD added to GET, all methods for none
handleMethods(methods) ==
    LET up == [i \in 1..Len(methods) |-> ToUpper(methods[i])]
        withHead == IF Contains(up, "GET") /\ ~Contains(up, "HEAD")
                    THEN Append(up, "HEAD") ELSE up
    IN IF Len(withHead) = 0 THEN allMethods ELSE withHead

\* the method names in the order slices.Sort gives them
sortedMethods == <<"CONNECT", "DELETE", "GET", "HEAD", "OPTIONS", "PATCH", "POST", "PUT", "TRACE">>

\* strings.Join(elems, ", ")
RECURSIVE Join(_, _)
Join(elems, sep) ==
    IF Len(elems) = 0 THEN <<>>
    ELSE IF Len(elems) = 1 THEN <<elems[1]>>
    ELSE <<elems[1], sep>> \o Join(Tail(elems), sep)

\* node.allow on the heap ns: the heap after it (the header is memoized in the
\* node) and the header returned
allow(ns, n) ==
    IF ns[n].allowHeader = Str0
    THEN LET methods == DOMAIN ns[n].handlers \cup {"OPTIONS"}
             sorted == SelectSeq(sortedMethods, LAMBDA m : m \in methods)
             header == Join(sorted, ", ")
         IN [nodes |-> [ns EXCEPT ![n].allowHeader = header], header |-> header]
    ELSE [nodes |-> ns, header |-> ns[n].allowHeader]

\* what serving a handler does, in order: each middleware layer's logic before it
\* calls next, the core function, each layer's logic after next returns
RECURSIVE serve(_, _)
serve(handler, core) ==
    IF Len(handler) <= 1 THEN core
    ELSE <<<<"pre", handler[1]>>>> \o serve(Tail(handler), core) \o <<<<"post", handler[1]>>>>

\* the core of a registered or built-in handler: one call of the function
call(handler) == <<<<"call", handler[Len(handler)]>>>>

NoResp ==
    [ outcome |-> "none", path |-> Str0, method |-> "", urlPath |-> Str0, match |-> NIL,
      pv |-> <<>>, status |-> 0, allow |-> Str0, location |-> Str0, trace |-> <<>>,
      handler |-> NILH ]

\* Router.handleMethodNotAllowed
handleMethodNotAllowed(ns, r, method, node) ==
    LET a == allow(ns, node)
    IN IF method = "OPTIONS"
       THEN [nodes |-> a.nodes, allow |-> a.header, outcome |-> "AutoOptions", status |-> 204,
             handler |-> r.AutoOptions]
       ELSE [nodes |-> a.nodes, allow |-> a.header, outcome |-> "MethodNotAllowed", status |-> 405,
             handler |-> r.MethodNotAllowed]

\* variant of handleRequest: the redirect is not held back when the cleaned path is "/"
handleRequestRedirectsRoot(ns, r, path, method) ==
    LET urlPath == IF needsCleaning(path) THEN Clean(path) ELSE path
        lk == lookup(ns, urlPath, <<>>)
        base == [NoResp EXCEPT !.path = path, !.method = method, !.urlPath = urlPath,
                               !.match = lk.m, !.pv = lk.pv]
    IN IF lk.m = NIL
       THEN [nodes |-> ns,
             resp |-> [base EXCEPT !.outcome = "NotFound", !.status = 404,
                                   !.handler = r.NotFound, !.trace = call(r.NotFound)]]
       ELSE IF r.RedirectTrailingSlash /\ HasSuffix(path, <<SLASH>>)
       THEN [nodes |-> ns,
             resp |-> [base EXCEPT !.outcome = "Redirect",
                                   !.status = IF method # "GET" THEN 308 ELSE 301,
                                   !.location = urlPath,
                                   !.trace = <<<<"call", "Redirect">>>>]]
       ELSE IF method \notin DOMAIN ns[lk.m].handlers
       THEN LET mna == handleMethodNotAllowed(ns, r, method, lk.m)
            IN [nodes |-> mna.nodes,
                resp |-> [base EXCEPT !.outcome = mna.outcome, !.status = mna.status,
                                      !.allow = mna.allow, !.handler = mna.handler,
                                      !.trace = call(mna.handler)]]
       ELSE LET handler == ns[lk.m].handlers[method]
            IN [nodes |-> ns,
                resp |-> [base EXCEPT !.outcome = "Handler", !.status = 200,
                                      !.handler = handler,
                                      !.trace = serve(handler, call(handler))]]

\* variant of handleRequest: the method check comes before the redirect check
handleRequestMethodFirst(ns, r, path, method) ==
    LET urlPath == IF needsCleaning(path) THEN Clean(path) ELSE path
        lk == lookup(ns, urlPath, <<>>)
        base == [NoResp EXCEPT !.path = path, !.method = method, !.urlPath = urlPath,
                               !.match = lk.m, !.pv = lk.pv]
    IN IF lk.m = NIL
       THEN [nodes |-> ns,
             resp |-> [base EXCEPT !.outcome = "NotFound", !.status = 404,
                                   !.handler = r.NotFound, !.trace = call(r.NotFound)]]
       ELSE IF method \notin DOMAIN ns[lk.m].handlers
       THEN LET mna == handleMethodNotAllowed(ns, r, method, lk.m)
            IN [nodes |-> mna.nodes,
                resp |-> [base EXCEPT !.outcome = mna.outcome, !.status = mna.status,
                                      !.allow = mna.allow, !.handler = mna.handler,
                                      !.trace = call(mna.handler)]]
       ELSE IF r.RedirectTrailingSlash /\ urlPath # <<SLASH>> /\ HasSuffix(path, <<SLASH>>)
       THEN [nodes |-> ns,
             resp |-> [base EXCEPT !.outcome = "Redirect",
                                   !.status = IF method # "GET" THEN 308 ELSE 301,
                                   !.location = urlPath,
                                   !.trace = <<<<"call", "Redirect">>>>]]
       ELSE LET handler == ns[lk.m].handlers[method]
            IN [nodes |-> ns,
                resp |-> [base EXCEPT !.outcome = "Handler", !.status = 200,
                                      !.handler = handler,
                                      !.trace = serve(handler, call(handler))]]

\* variant of handleRequest: no return after the redirect, the method check and the
\* handler follow it
handleRequestNoReturn(ns, r, path, method) ==
    LET urlPath == IF needsCleaning(path) THEN Clean(path) ELSE path
        lk == lookup(ns, urlPath, <<>>)
        base == [NoResp EXCEPT !.path = path, !.method = method, !.urlPath = urlPath,
                               !.match = lk.m, !.pv = lk.pv]
        redirected == lk.m # NIL /\ r.RedirectTrailingSlash /\ urlPath # <<SLASH>>
                      /\ HasSuffix(path, <<SLASH>>)
        first == IF redirected THEN <<<<"call", "Redirect">>>> ELSE <<>>
        base2 == IF redirected
                 THEN [base EXCEPT !.location = urlPath] ELSE base
    IN IF lk.m = NIL
       THEN [nodes |-> ns,
             resp |-> [base EXCEPT !.outcome = "NotFound", !.status = 404,
                                   !.handler = r.NotFound, !.trace = call(r.NotFound)]]
       ELSE IF method \notin DOMAIN ns[lk.m].handlers
       THEN LET mna == handleMethodNotAllowed(ns, r, method, lk.m)
            IN [nodes |-> mna.nodes,
                resp |-> [base2 EXCEPT !.outcome = IF redirected THEN "Redirect" ELSE mna.outcome,
                                       !.status = IF redirected
                                                  THEN (IF method # "GET" THEN 308 ELSE 301)
                                                  ELSE mna.status,
                                       !.allow = mna.allow, !.handler = mna.handler,
                                       !.trace = first \o call(mna.handler)]]
       ELSE LET handler == ns[lk.m].handlers[method]
            IN [nodes |-> ns,
                resp |-> [base2 EXCEPT !.outcome = IF redirected THEN "Redirect" ELSE "Handler",
                                       !.status = IF redirected
                                                  THEN (IF method # "GET" THEN 308 ELSE 301)
                                                  ELSE 200,
                                       !.handler = handler,
                                       !.trace = first \o serve(handler, call(handler))]]

\* Router.handleRequest for a request with URL path `path` and method `method`: the
\* heap after it and the response, trace holding what ran inside handleRequest
handleRequest(ns, r, path, method) ==
    LET urlPath == IF needsCleaning(path) THEN Clean(path) ELSE path
        lk == lookup(ns, urlPath, <<>>)
        base == [NoResp EXCEPT !.path = path, !.method = method, !.urlPath = urlPath,
                               !.match = lk.m, !.pv = lk.pv]
    IN IF lk.m = NIL
       THEN [nodes |-> ns,
             resp |-> [base EXCEPT !.outcome = "NotFound", !.status = 404,
                                   !.handler = r.NotFound, !.trace = call(r.NotFound)]]
       ELSE IF r.RedirectTrailingSlash /\ urlPath # <<SLASH>> /\ HasSuffix(path, <<SLASH>>)
       THEN [nodes |-> ns,
             resp |-> [base EXCEPT !.outcome = "Redirect",
                                   !.status = IF method # "GET" THEN 308 ELSE 301,
                                   !.location = urlPath,
                                   !.trace = <<<<"call", "Redirect">>>>]]
       ELSE IF method \notin DOMAIN ns[lk.m].handlers
       THEN LET mna == handleMethodNotAllowed(ns, r, method, lk.m)
            IN [nodes |-> mna.nodes,
                resp |-> [base EXCEPT !.outcome = mna.outcome, !.status = mna.status,
                                      !.allow = mna.allow, !.handler = mna.handler,
                                      !.trace = call(mna.handler)]]
       ELSE LET handler == ns[lk.m].handlers[method]
            IN [nodes |-> ns,
                resp |-> [base EXCEPT !.outcome = "Handler", !.status = 200,
                                      !.handler = handler,
                                      !.trace = serve(handler, call(handler))]]

-----------------------------------------------------------------------------
(* The calls of the API as actions *)

Call(op, r, panic) == [op |-> op, r |-> r, panic |-> panic]

\* the goroutines that serve requests
Threads == {"g1", "g2"}

\* the machine words of an interface value (r.handler) and of a string (n.allowHeader)
HandlerWords == {"type", "data"}
StringWords == {"ptr", "len"}

\* what a request got: the outcome, the handler that ran, the path values, the
\* status and the Allow header
NoResult == [outcome |-> "none", handler |-> NILH, pv |-> <<>>, status |-> 0, allow |-> Str0]

\* a goroutine that serves no request
Idle == [pc |-> "idle", path |-> Str0, method |-> "", node |-> NIL, todo |-> {}, res |-> NoResult]

NoRequests ==
    [ serving |-> FALSE,
      req |-> [t \in Threads |-> Idle],
      handlerPending |-> {},
      allowPending |-> {} ]

Init ==
    /\ nodes = (ROOTADDR :> newNode(<<SLASH>>))
    /\ routers = <<New>>
    /\ resp = NoResp
    /\ last = Call("New", ROOT, NoPanic)
    /\ registered = {}
    /\ regs = <<>>
    /\ scope = << <<>> >>
    /\ encl = << Str0 >>
    /\ made = 0
    /\ conc = NoRequests

\* variant of Use: the root is not checked for a dispatch handler already built
UseUnchecked(r, middlewares) ==
    /\ routers' = [routers EXCEPT ![r].middlewares = @ \o middlewares]
    /\ scope' = [scope EXCEPT ![r] = @ \o middlewares]
    /\ last' = Call("Use", r, NoPanic)
    /\ resp' = NoResp
    /\ UNCHANGED <<nodes, registered, regs, encl>>

\* Router.Use(middlewares...)
Use(r, middlewares) ==
    /\ IF routers[r].handler # NILH
       THEN /\ last' = Call("Use", r, "middlewares must be defined before routes")
            /\ UNCHANGED <<routers, scope>>
       ELSE /\ routers' = [routers EXCEPT ![r].middlewares = @ \o middlewares]
            /\ scope' = [scope EXCEPT ![r] = @ \o middlewares]
            /\ last' = Call("Use", r, NoPanic)
    /\ resp' = NoResp
    /\ UNCHANGED <<nodes, registered, regs, encl>>

\* Router.Group(fn): the sub-router handed to fn; what fn does with it are further calls
Group(r) ==
    /\ Len(routers) < MaxRouters
    /\ routers' = Append(routers, SubRouter(routers[r].prefix, cloneChain(routers[r])))
    /\ scope' = Append(scope, IF r = ROOT THEN <<>> ELSE scope[r])
    /\ last' = Call("Group", r, NoPanic)
    /\ resp' = NoResp
    /\ encl' = Append(encl, encl[r])
    /\ UNCHANGED <<nodes, registered, regs>>

\* variant of GroupWithPrefix: the new router gets the prefix given and not the
\* prefix of the router it is made from
GroupWithPrefixOwnOnly(r, prefix) ==
    /\ Len(routers) < MaxRouters
    /\ routers' = Append(routers, SubRouter(prefix, cloneChain(routers[r])))
    /\ scope' = Append(scope, IF r = ROOT THEN <<>> ELSE scope[r])
    /\ last' = Call("GroupWithPrefix", r, NoPanic)
    /\ resp' = NoResp
    /\ encl' = Append(encl, encl[r] \o prefix)
    /\ UNCHANGED <<nodes, registered, regs>>

\* Router.GroupWithPrefix(prefix, fn)
GroupWithPrefix(r, prefix) ==
    /\ Len(routers) < MaxRouters
    /\ routers' = Append(routers, SubRouter(routers[r].prefix \o prefix, cloneChain(routers[r])))
    /\ scope' = Append(scope, IF r = ROOT THEN <<>> ELSE scope[r])
    /\ last' = Call("GroupWithPrefix", r, NoPanic)
    /\ resp' = NoResp
    /\ encl' = Append(encl, encl[r] \o prefix)
    /\ UNCHANGED <<nodes, registered, regs>>

\* variant of With: the middleware is appended to the router's own list, which the
\* new router then copies
WithInPlace(r, middlewares) ==
    /\ Len(routers) < MaxRouters
    /\ routers' = Append([routers EXCEPT ![r].middlewares = @ \o middlewares],
                         SubRouter(routers[r].prefix, cloneChain(routers[r]) \o middlewares))
    /\ scope' = Append(scope, (IF r = ROOT THEN <<>> ELSE scope[r]) \o middlewares)
    /\ last' = Call("With", r, NoPanic)
    /\ resp' = NoResp
    /\ encl' = Append(encl, encl[r])
    /\ UNCHANGED <<nodes, registered, regs>>

\* Router.With(middlewares...)
With(r, middlewares) ==
    /\ Len(routers) < MaxRouters
    /\ routers' = Append(routers, SubRouter(routers[r].prefix, cloneChain(routers[r]) \o middlewares))
    /\ scope' = Append(scope, (IF r = ROOT THEN <<>> ELSE scope[r]) \o middlewares)
    /\ last' = Call("With", r, NoPanic)
    /\ resp' = NoResp
    /\ encl' = Append(encl, encl[r])
    /\ UNCHANGED <<nodes, registered, regs>>

\* Router.Handle(pattern, handler, methods...)
Handle(r, pattern, handler, methods) ==
    LET ms == handleMethods(methods)
        rootHandler == IF routers[r].isRoot THEN dispatchHandler(routers[r])
                       ELSE routers[r].handler
        wrapped == IF ~routers[r].isRoot THEN chain(routers[r].middlewares, handler)
                   ELSE handler
        full == routers[r].prefix \o pattern
        ins == insert(nodes, full, wrapped, ms)
    IN /\ full \in registered \/ Cardinality(registered) < MaxRoutes
       /\ routers' = [routers EXCEPT ![r].handler = rootHandler]
       /\ nodes' = ins.nodes
       /\ last' = Call("Handle", r, ins.panic)
       /\ resp' = NoResp
       /\ IF ins.panic = NoPanic
          THEN /\ registered' = registered \cup {full}
               /\ regs' = [k \in {<<ins.cur, ms[i]>> : i \in 1..Len(ms)} |->
                             [by |-> r, pattern |-> pattern, handler |-> handler,
                              chain |-> IF r = ROOT THEN <<>> ELSE scope[r]]]
                          @@ regs
          ELSE UNCHANGED <<registered, regs>>
       /\ UNCHANGED <<scope, encl>>

\* Router.ServeHTTP(w, rq) for a request with URL path `path` and method `method`
ServeHTTP(r, path, method) ==
    IF ~routers[r].isRoot
    THEN /\ last' = Call("ServeHTTP", r, "only root router should be used as http.Handler")
         /\ resp' = NoResp
         /\ UNCHANGED <<nodes, routers, registered, regs, scope, encl>>
    ELSE LET handler == dispatchHandler(routers[r])
             hr == handleRequest(nodes, routers[r], path, method)
         IN /\ routers' = [routers EXCEPT ![r].handler = handler]
            /\ nodes' = hr.nodes
            /\ resp' = [hr.resp EXCEPT !.trace = serve(handler, @)]
            /\ last' = Call("ServeHTTP", r, NoPanic)
            /\ UNCHANGED <<registered, regs, scope, encl>>

\* the caller sets the root's field: r.RedirectTrailingSlash = b
SetRedirectTrailingSlash(b) ==
    /\ routers[ROOT].RedirectTrailingSlash # b
    /\ routers' = [routers EXCEPT ![ROOT].RedirectTrailingSlash = b]
    /\ last' = Call("SetRedirectTrailingSlash", ROOT, NoPanic)
    /\ resp' = NoResp
    /\ UNCHANGED <<nodes, registered, regs, scope, encl>>

-----------------------------------------------------------------------------
(* Requests served at the same time, one memory access of ServeHTTP at a step.   *)
(* r.handler and n.allowHeader are read and written without synchronization:     *)
(* a store of such a two-word value is two stores of a word in an order the      *)
(* build chooses, and a load between them sees one word new and one word old.    *)

\* the words of r.handler and of n.allowHeader that a load sees set
HandlerSet(w) == routers[ROOT].handler # NILH /\ w \notin conc.handlerPending
AllowSet(n, w) == nodes[n].allowHeader # Str0 /\ <<n, w>> \notin conc.allowPending

\* a string whose length is set and whose data pointer is not
TORN == <<"(nil data, length set)">>

Goto(t, pc) == [conc EXCEPT !.req[t].pc = pc]

\* ServeHTTP is entered for a request, on the root
ServeHTTPEnter(t, path, method) ==
    /\ conc.req[t].pc = "idle"
    /\ conc' = [conc EXCEPT !.serving = TRUE,
                            !.req[t] = [Idle EXCEPT !.pc = "check", !.path = path,
                                                    !.method = method]]
    /\ UNCHANGED <<nodes, routers, resp, last, registered, regs, scope, encl>>

\* "if r.handler == nil": the type word of the interface is loaded
ServeHTTPCheck(t) ==
    /\ conc.req[t].pc = "check"
    /\ conc' = IF HandlerSet("type")
               THEN Goto(t, "call")
               ELSE [conc EXCEPT !.req[t].pc = "store", !.req[t].todo = HandlerWords]
    /\ UNCHANGED <<nodes, routers, resp, last, registered, regs, scope, encl>>

\* "r.handler = chain(r.middlewares, http.HandlerFunc(r.handleRequest))": one of the
\* two words is stored
ServeHTTPStore(t, w) ==
    /\ conc.req[t].pc = "store"
    /\ w \in conc.req[t].todo
    /\ routers' = [routers EXCEPT ![ROOT].handler = chain(routers[ROOT].middlewares, <<"handleRequest">>)]
    /\ conc' = [conc EXCEPT
                  !.handlerPending = IF routers[ROOT].handler = NILH
                                     THEN HandlerWords \ {w} ELSE @ \ {w},
                  !.req[t].todo = @ \ {w},
                  !.req[t].pc = IF conc.req[t].todo = {w} THEN "call" ELSE "store"]
    /\ UNCHANGED <<nodes, resp, last, registered, regs, scope, encl>>

\* "r.handler.ServeHTTP(w, rq)": r.handler is loaded and called; handleRequest runs
\* up to the call of a handler or of node.allow
ServeHTTPCall(t) ==
    /\ conc.req[t].pc = "call"
    /\ LET hr == handleRequest(nodes, routers[ROOT], conc.req[t].path, conc.req[t].method).resp
           res == [outcome |-> hr.outcome, handler |-> hr.handler, pv |-> hr.pv,
                   status |-> hr.status, allow |-> Str0]
       IN conc' =
            IF ~(HandlerSet("type") /\ HandlerSet("data"))
            THEN [conc EXCEPT !.req[t].pc = "done",
                              !.req[t].res = [NoResult EXCEPT !.outcome = "panic"]]
            ELSE IF hr.outcome \in {"MethodNotAllowed", "AutoOptions"}
            THEN [conc EXCEPT !.req[t].pc = "allowCheck", !.req[t].node = hr.match,
                              !.req[t].res = res]
            ELSE [conc EXCEPT !.req[t].pc = "done", !.req[t].res = res]
    /\ UNCHANGED <<nodes, routers, resp, last, registered, regs, scope, encl>>

\* node.allow, "if n.allowHeader == \"\"": the length of the string is loaded
allowCheck(t) ==
    /\ conc.req[t].pc = "allowCheck"
    /\ conc' = IF AllowSet(conc.req[t].node, "len")
               THEN Goto(t, "allowReturn")
               ELSE [conc EXCEPT !.req[t].pc = "allowStore", !.req[t].todo = StringWords]
    /\ UNCHANGED <<nodes, routers, resp, last, registered, regs, scope, encl>>

\* node.allow, "n.allowHeader = strings.Join(methods, \", \")": one of the two words
\* is stored
allowStore(t, w) ==
    /\ conc.req[t].pc = "allowStore"
    /\ w \in conc.req[t].todo
    /\ LET n == conc.req[t].node
       IN /\ nodes' = allow(nodes, n).nodes
          /\ conc' = [conc EXCEPT
                        !.allowPending = IF nodes[n].allowHeader = Str0
                                         THEN @ \cup { <<n, v>> : v \in StringWords \ {w} }
                                         ELSE @ \ { <<n, w>> },
                        !.req[t].todo = @ \ {w},
                        !.req[t].pc = IF conc.req[t].todo = {w} THEN "allowReturn"
                                      ELSE "allowStore"]
    /\ UNCHANGED <<routers, resp, last, registered, regs, scope, encl>>

\* node.allow, "return n.allowHeader": the string is loaded, set as the Allow header,
\* and the auto-options or method-not-allowed handler is called
allowReturn(t) ==
    /\ conc.req[t].pc = "allowReturn"
    /\ LET n == conc.req[t].node
           header == IF ~AllowSet(n, "len") THEN Str0
                     ELSE IF ~AllowSet(n, "ptr") THEN TORN
                     ELSE nodes[n].allowHeader
       IN conc' = [conc EXCEPT !.req[t].pc = "done", !.req[t].res.allow = header]
    /\ UNCHANGED <<nodes, routers, resp, last, registered, regs, scope, encl>>

-----------------------------------------------------------------------------
(* The inputs of the model *)

PathChars == {SLASH, ".", "a"}

\* the request paths: every string of at most MaxPathLen characters that begins with '/'
Paths == { p \in Strings(PathChars, 1, MaxPathLen) : p[1] = SLASH }

segA == <<"a">>
segX == <<"{", "x", "}">>
segY == <<"{", "y", "}">>

\* "/" \o s1 \o "/" \o s2 ...
RECURSIVE Pattern(_)
Pattern(segs) == IF Len(segs) = 0 THEN <<>> ELSE <<SLASH>> \o segs[1] \o Pattern(Tail(segs))

Patterns ==
    { Pattern(<<segA>>), Pattern(<<segX>>), Pattern(<<STAR>>),
      Pattern(<<segA, segA>>), Pattern(<<segA, STAR>>),
      Pattern(<<segX, segA>>), Pattern(<<segX, STAR>>),
      Pattern(<<segX, segX, segA>>) }

\* registration on the root, and requests
Next ==
    \/ \E p \in Patterns : Handle(ROOT, p, <<"h">>, <<"GET">>) /\ UNCHANGED <<made, conc>>
    \/ \E p \in Paths : ServeHTTP(ROOT, p, "GET") /\ UNCHANGED <<made, conc>>

Spec == Init /\ [][Next]_vars

\* the middleware values the caller makes, in the order it makes them; each runs
\* its logic, calls next, and runs its logic again when next returns
MwNames == <<"m1", "m2">>
CanMake == made < Len(MwNames)
Fresh == <<MwNames[made + 1]>>

Routers == 1..Len(routers)

MwPatterns == { Pattern(<<segA>>), Pattern(<<segX>>) }
MwPrefixes == { Str0 }
MwPaths == { Pattern(<<segA>>), Pattern(<<segA, segA>>) }

\* registration through the root and its sub-routers, with middleware, and requests
NextMw ==
    \/ \E r \in Routers : CanMake /\ Use(r, Fresh) /\ made' = made + 1 /\ UNCHANGED conc
    \/ \E r \in Routers : Group(r) /\ UNCHANGED <<made, conc>>
    \/ \E r \in Routers, p \in MwPrefixes : GroupWithPrefix(r, p) /\ UNCHANGED <<made, conc>>
    \/ \E r \in Routers : CanMake /\ With(r, Fresh) /\ made' = made + 1 /\ UNCHANGED conc
    \/ \E r \in Routers, p \in MwPatterns : Handle(r, p, <<"h">>, <<"GET">>) /\ UNCHANGED <<made, conc>>
    \/ \E r \in Routers, p \in MwPaths : ServeHTTP(r, p, "GET") /\ UNCHANGED <<made, conc>>

SpecMw == Init /\ [][NextMw]_vars

RootPatterns == { Pattern(<<segA>>) }
RootPaths == { Pattern(<<segA>>), Pattern(<<segA>>) \o <<SLASH>>, Pattern(<<segX>>) }
RootMethods == {"GET", "POST", "OPTIONS"}

\* the root router alone: its middleware, its routes, its configuration, and requests
NextRoot ==
    \/ CanMake /\ Use(ROOT, Fresh) /\ made' = made + 1 /\ UNCHANGED conc
    \/ \E p \in RootPatterns : Handle(ROOT, p, <<"h">>, <<"GET">>) /\ UNCHANGED <<made, conc>>
    \/ \E b \in BOOLEAN : SetRedirectTrailingSlash(b) /\ UNCHANGED <<made, conc>>
    \/ \E p \in RootPaths, m \in RootMethods : ServeHTTP(ROOT, p, m) /\ UNCHANGED <<made, conc>>

SpecRoot == Init /\ [][NextRoot]_vars

\* the root alone without middleware: routes for several method lists and handlers,
\* registered before and after requests, the redirect setting, and requests for
\* every method
DispatchRoutes ==
    { <<(<<SLASH>>), <<"h">>, <<"GET">>>>,
      <<Pattern(<<segA>>), <<"h">>, <<"GET">>>>,
      <<Pattern(<<segA>>), <<"g">>, <<"HEAD">>>>,
      <<Pattern(<<segA>>), <<"h">>, <<"options">>>> }
DispatchPaths ==
    { <<SLASH>>, <<SLASH, SLASH>>, Pattern(<<segA>>), Pattern(<<segA>>) \o <<SLASH>>,
      Pattern(<<segX>>) \o <<SLASH>> }
DispatchMethods == {"GET", "HEAD", "OPTIONS", "DELETE"}

NextDispatch ==
    \/ \E a \in DispatchRoutes : Handle(ROOT, a[1], a[2], a[3]) /\ UNCHANGED <<made, conc>>
    \/ \E b \in BOOLEAN : SetRedirectTrailingSlash(b) /\ UNCHANGED <<made, conc>>
    \/ \E p \in DispatchPaths, m \in DispatchMethods : ServeHTTP(ROOT, p, m) /\ UNCHANGED <<made, conc>>

SpecDispatch == Init /\ [][NextDispatch]_vars

\* registration of patterns right and wrong, on the root and through prefix groups,
\* and requests
segEmpty == <<"{", "}">>
segBrace == <<"{">>

RegPatterns ==
    { Pattern(<<segA>>), Pattern(<<segX>>), Pattern(<<segY>>), Pattern(<<STAR>>),
      Pattern(<<segBrace>>), Pattern(<<segEmpty>>), Pattern(<<segY, STAR, segA>>) }
RegPrefixes == { Pattern(<<STAR>>), Pattern(<<segX>>) }
RegPaths == { Pattern(<<segA>>) }

NextReg ==
    \/ \E p \in RegPrefixes : GroupWithPrefix(ROOT, p) /\ UNCHANGED <<made, conc>>
    \/ \E r \in Routers, p \in RegPatterns : Handle(r, p, <<"h">>, <<"GET">>) /\ UNCHANGED <<made, conc>>
    \/ \E p \in RegPaths : ServeHTTP(ROOT, p, "GET") /\ UNCHANGED <<made, conc>>

SpecReg == Init /\ [][NextReg]_vars

\* prefix groups in and beside one another, plain groups in them, routes on all
\* of them, and requests
segB == <<"b">>

PrefixPieces == { Pattern(<<segA>>), Pattern(<<segX>>) }
PrefixPatterns == { Pattern(<<segA>>), Pattern(<<segB>>) }
PrefixPaths ==
    { Pattern(<<segA>>), Pattern(<<segB>>), Pattern(<<segA, segA>>), Pattern(<<segA, segB>>),
      Pattern(<<segB, segA>>), Pattern(<<segA, segA, segA>>), Pattern(<<segA, segB, segA>>),
      Pattern(<<segB, segA, segB>>) }

NextPrefix ==
    \/ \E r \in Routers, p \in PrefixPieces : GroupWithPrefix(r, p) /\ UNCHANGED <<made, conc>>
    \/ \E r \in Routers : Group(r) /\ UNCHANGED <<made, conc>>
    \/ \E r \in Routers, p \in PrefixPatterns : Handle(r, p, <<"h">>, <<"GET">>) /\ UNCHANGED <<made, conc>>
    \/ \E p \in PrefixPaths : ServeHTTP(ROOT, p, "GET") /\ UNCHANGED <<made, conc>>

SpecPrefix == Init /\ [][NextPrefix]_vars

\* registration through the root and a group, by one goroutine; then requests
\* served by several goroutines at the same time
ConcPaths == { Pattern(<<segA>>) }
ConcMethods == {"GET", "DELETE"}

NextConc ==
    \/ ~conc.serving /\ CanMake /\ Use(ROOT, Fresh) /\ made' = made + 1 /\ UNCHANGED conc
    \/ ~conc.serving /\ Group(ROOT) /\ UNCHANGED <<made, conc>>
    \/ \E r \in Routers :
          ~conc.serving /\ Handle(r, Pattern(<<segA>>), <<"h">>, <<"GET">>) /\ UNCHANGED <<made, conc>>
    \/ \E t \in Threads, p \in ConcPaths, m \in ConcMethods :
          ServeHTTPEnter(t, p, m) /\ UNCHANGED made
    \/ \E t \in Threads : ServeHTTPCheck(t) /\ UNCHANGED made
    \/ \E t \in Threads, w \in HandlerWords : ServeHTTPStore(t, w) /\ UNCHANGED made
    \/ \E t \in Threads : ServeHTTPCall(t) /\ UNCHANGED made
    \/ \E t \in Threads : allowCheck(t) /\ UNCHANGED made
    \/ \E t \in Threads, w \in StringWords : allowStore(t, w) /\ UNCHANGED made
    \/ \E t \in Threads : allowReturn(t) /\ UNCHANGED made

SpecConc == Init /\ [][NextConc]_vars

\* the root alone: routes registered over one another on one node, through two
\* patterns of that node, for one method, for several, in lower case and for all
\* methods, a route on another node, and requests
LastRoutes ==
    { <<Pattern(<<segA>>), <<"h">>, <<"GET">>>>,
      <<Pattern(<<segA>>) \o <<SLASH>>, <<"g">>, <<"HEAD">>>>,
      <<Pattern(<<segA>>), <<"k">>, <<>>>>,
      <<Pattern(<<segA>>) \o <<SLASH>>, <<"g">>, <<"post", "get">>>>,
      <<(<<SLASH>>), <<"g">>, <<"DELETE">>>> }
LastPaths == { <<SLASH>>, Pattern(<<segA>>) }
LastMethods == {"GET", "HEAD", "POST", "DELETE"}

NextLast ==
    \/ \E a \in LastRoutes : Handle(ROOT, a[1], a[2], a[3]) /\ UNCHANGED <<made, conc>>
    \/ \E p \in LastPaths, m \in LastMethods : ServeHTTP(ROOT, p, m) /\ UNCHANGED <<made, conc>>

SpecLast == Init /\ [][NextLast]_vars

\* the root alone: patterns that fail after some of their nodes were made, before
\* and after routes that share those nodes or lie beside them, and requests whose
\* paths run through the nodes that were made
FailPatterns ==
    { Pattern(<<segX>>), Pattern(<<STAR>>), Pattern(<<segA, segX>>),
      Pattern(<<segA, segEmpty>>), Pattern(<<segX, segA, STAR, segA>>),
      Pattern(<<segA, segY, segEmpty>>), Pattern(<<segY, segA>>) }
FailPaths == { Pattern(<<segA>>), Pattern(<<segA, segA>>), Pattern(<<segA, segA, segA>>) }
FailMethods == {"GET", "POST"}

NextFail ==
    \/ \E p \in FailPatterns : Handle(ROOT, p, <<"h">>, <<"GET">>) /\ UNCHANGED <<made, conc>>
    \/ \E p \in FailPaths, m \in FailMethods : ServeHTTP(ROOT, p, m) /\ UNCHANGED <<made, conc>>

SpecFail == Init /\ [][NextFail]_vars

-----------------------------------------------------------------------------
(* What a pattern means, stated on the patterns themselves and not on the trie *)

IsParam(seg) == HasPrefix(seg, <<"{">>) /\ HasSuffix(seg, <<"}">>)

\* 0 for a literal segment, 1 for a parameter, 2 for the wildcard
Kind(seg) == IF seg = STAR THEN 2 ELSE IF IsParam(seg) THEN 1 ELSE 0

\* pattern segments ps match the whole of the path segments s, from position i on:
\* a literal is equal to its segment, a parameter takes one segment, the wildcard
\* takes the rest, which is at least one segment
RECURSIVE MatchesFrom(_, _, _)
MatchesFrom(ps, s, i) ==
    IF i > Len(ps) THEN i > Len(s)
    ELSE IF ps[i] = STAR THEN i = Len(ps) /\ i <= Len(s)
    ELSE IF i > Len(s) THEN FALSE
    ELSE (IsParam(ps[i]) \/ ps[i] = s[i]) /\ MatchesFrom(ps, s, i + 1)

Matches(pattern, path) == MatchesFrom(splitPath(pattern), splitPath(path), 1)

\* the node a pattern's handlers are stored at
RECURSIVE NodeFrom(_, _, _)
NodeFrom(ps, i, n) ==
    IF i > Len(ps) THEN n
    ELSE NodeFrom(ps, i + 1, ChildAddr(n, IF IsParam(ps[i]) THEN PARAMLABEL ELSE ps[i]))

NodeOf(pattern) == NodeFrom(splitPath(pattern), 1, ROOTADDR)

\* the kinds of a pattern's segments, and their order: u before v when u is more
\* specific at the first level where they differ
Kinds(pattern) == LET ps == splitPath(pattern) IN [i \in 1..Len(ps) |-> Kind(ps[i])]

Before(u, v) ==
    \E j \in 1..Len(u) :
        /\ j <= Len(v)
        /\ u[j] < v[j]
        /\ \A k \in 1..(j - 1) : u[k] = v[k]

\* patterns p and q part ways at level j: they lead to the same node through their
\* first j-1 segments, where p goes on with a segment of kind kp and q with one of kind kq
PartAt(p, q, j, kp, kq) ==
    LET u == splitPath(p)
        v == splitPath(q)
    IN /\ j <= Len(u) /\ j <= Len(v)
       /\ NodeFrom(SubSeq(u, 1, j - 1), 1, ROOTADDR) = NodeFrom(SubSeq(v, 1, j - 1), 1, ROOTADDR)
       /\ Kind(u[j]) = kp /\ Kind(v[j]) = kq

Served == resp.outcome # "none"

\* the registered patterns that match the whole of the path that was looked up
Matching == { p \in registered : Matches(p, resp.urlPath) }

-----------------------------------------------------------------------------
(* C1 *)

\* C1: precedence law of lookup. After every request, if some registered pattern
\* matches the whole path, the node lookup returned is the node of the matching
\* pattern that comes first in the order literal < parameter < wildcard taken level
\* by level from the root; so a matching parameter route is never served when a
\* literal route that parts from it at the same level matches too, nor a matching
\* wildcard route when such a parameter route matches.
PrecedenceLaw ==
    Served /\ Matching # {} =>
        /\ \E p \in Matching :
              /\ resp.match = NodeOf(p)
              /\ \A q \in Matching : ~Before(Kinds(q), Kinds(p))
        /\ \A p \in Matching, q \in Matching :
              \A j \in 1..Len(splitPath(p)) :
                  PartAt(p, q, j, 0, 1) \/ PartAt(p, q, j, 1, 2) => resp.match # NodeOf(q)

\* a request whose path matches a literal and a parameter route that part at one
\* level was served by the literal route
PrecedenceWitness ==
    /\ Served
    /\ \E p \in Matching, q \in Matching :
          \E j \in 1..Len(splitPath(p)) : PartAt(p, q, j, 0, 1) /\ resp.match = NodeOf(p)

(* C2 *)

\* C2: lookup is complete and sound under backtracking. After every request, lookup
\* returned a node exactly when some registered pattern matches the whole path, and
\* the node returned has at least one handler.
LookupCompleteSound ==
    Served =>
        /\ resp.match # NIL <=> Matching # {}
        /\ resp.match # NIL => DOMAIN nodes[resp.match].handlers # {}

\* the first segment of the path of a request
FirstSegment == splitPath(resp.urlPath)[1]

\* a request was matched after lookup left the literal subtree of the first segment,
\* which exists, for the parameter or wildcard child of the root
BacktrackWitness ==
    /\ Served /\ resp.match # NIL /\ resp.urlPath # <<SLASH>>
    /\ FirstSegment \in DOMAIN nodes[ROOTADDR].children
    /\ ~HasPrefix(resp.match, ChildAddr(ROOTADDR, FirstSegment))

(* C3 *)

IsWildcardPattern(p) == LET ps == splitPath(p) IN Len(ps) > 0 /\ ps[Len(ps)] = STAR

\* C3: a wildcard route matches only when a segment remains after its prefix. After
\* every request, a wildcard node is returned only for a path with more segments
\* than the wildcard's prefix; and when a wildcard pattern is the only route, a path
\* is matched exactly when it goes through the prefix and has one or more segments
\* after it, so the bare prefix is not found.
WildcardNeedsSegment ==
    Served =>
        /\ resp.match # NIL /\ nodes[resp.match].segment = STAR
              => Len(splitPath(resp.urlPath)) >= Len(splitPath(resp.match))
        /\ \A p \in registered :
              registered = {p} /\ IsWildcardPattern(p) =>
                  LET prefix == SubSeq(splitPath(p), 1, Len(splitPath(p)) - 1)
                      s == splitPath(resp.urlPath)
                  IN /\ Len(s) = Len(prefix) => resp.outcome = "NotFound"
                     /\ Len(s) > Len(prefix)
                        /\ MatchesFrom(prefix, SubSeq(s, 1, Len(prefix)), 1)
                            => resp.match = NodeOf(p)

\* a request was served by a wildcard route that took two segments
WildcardWitness ==
    /\ Served /\ resp.match # NIL /\ nodes[resp.match].segment = STAR
    /\ Len(splitPath(resp.urlPath)) > Len(splitPath(resp.match))

(* C4 *)

\* the segments of the path at the levels where the walk to node n takes a parameter
\* child named name
RECURSIVE BoundAlong(_, _, _, _, _)
BoundAlong(n, labels, i, s, name) ==
    IF i > Len(labels) THEN {}
    ELSE LET c == ChildAddr(n, labels[i])
         IN (IF labels[i] = PARAMLABEL /\ nodes[c].segment = name /\ i <= Len(s)
             THEN {s[i]} ELSE {})
            \cup BoundAlong(c, labels, i + 1, s, name)

ParamNames == { nodes[n].segment : n \in { m \in DOMAIN nodes : HasSuffix(m, PARAMLABEL) } }

\* C4: parameter binding is trial and error. When a matched handler runs, every
\* parameter name on the walk to the matched node is bound to the request segment at
\* a level where the walk takes that parameter, and every other name is unbound.
ParamsOfMatchOnly ==
    resp.outcome = "Handler" =>
        \A name \in ParamNames :
            LET B == BoundAlong(ROOTADDR, splitPath(resp.match), 1, splitPath(resp.urlPath), name)
            IN IF B = {} THEN PathValue(resp.pv, name) = Str0
               ELSE PathValue(resp.pv, name) \in B

(* C5 *)

\* C5: normalization equivalence. After every request for a path P, with redirection
\* off, handling the request for Clean(P) gives the same node, handler, outcome and
\* path values; and P is its own normal form whenever needsCleaning(P) is false.
NormalizationEquivalence ==
    Served /\ ~routers[ROOT].RedirectTrailingSlash =>
        LET n == handleRequest(nodes, routers[ROOT], Clean(resp.path), resp.method).resp
        IN /\ n.match = resp.match
           /\ n.handler = resp.handler
           /\ n.outcome = resp.outcome
           /\ n.pv = resp.pv
           /\ ~needsCleaning(resp.path) => Clean(resp.path) = resp.path

\* a request whose path has a repeated slash was served by a matched handler
NormalizationWitness ==
    /\ resp.outcome = "Handler"
    /\ \E i \in 1..(Len(resp.path) - 1) : resp.path[i] = SLASH /\ resp.path[i + 1] = SLASH

-----------------------------------------------------------------------------
(* Middleware *)

\* what a request through the middleware c, in that order, around the function f
\* runs: each middleware's logic before next in the order of c, f, then each
\* middleware's logic after next in the reverse order
Onion(c, f) ==
    [i \in 1..(2 * Len(c) + 1) |->
        IF i <= Len(c) THEN <<"pre", c[i]>>
        ELSE IF i = Len(c) + 1 THEN <<"call", f>>
        ELSE <<"post", c[2 * Len(c) + 2 - i]>>]

\* the registration that serves the request
Route == regs[<<resp.match, resp.method>>]

\* how often middleware m is entered in the trace of the request
Entered(m) == Cardinality({ i \in 1..Len(resp.trace) : resp.trace[i] = <<"pre", m>> })

(* C6 *)

\* C6: middleware ordering law. A request served by a route runs the middleware in
\* the order in which the Use and With calls registered it, the root's first, then
\* the handler, then the middleware again in the reverse order; each is entered once.
MiddlewareOrderingLaw ==
    resp.outcome = "Handler" =>
        /\ resp.trace = Onion(scope[ROOT] \o Route.chain, Route.handler[1])
        /\ \A i \in 1..Len(scope[ROOT] \o Route.chain) :
              Entered((scope[ROOT] \o Route.chain)[i]) = 1

\* a request was served through two middleware registered on one sub-router
OrderingWitness ==
    /\ resp.outcome = "Handler"
    /\ Len(Route.chain) > 1
    /\ Len(resp.trace) > 4

(* C7 *)

\* C7: the middleware of a route is fixed at its registration. At all times the
\* handler stored for a route runs the chain its sub-router had at the Handle call,
\* whatever Use calls were made since; and a request served by the route enters the
\* root's middleware and then that chain.
ChainFixedAtRegistration ==
    /\ \A k \in DOMAIN regs :
          LET handler == nodes[k[1]].handlers[k[2]]
          IN serve(handler, call(handler)) = Onion(regs[k].chain, regs[k].handler[1])
    /\ resp.outcome = "Handler" =>
          [i \in 1..(Len(routers[ROOT].middlewares) + Len(Route.chain)) |-> resp.trace[i][2]]
              = routers[ROOT].middlewares \o Route.chain

\* a request was served by a route of a sub-router on which Use was called after
\* the route was registered
LaterUseWitness ==
    /\ resp.outcome = "Handler"
    /\ Route.by # ROOT
    /\ Len(scope[Route.by]) > Len(Route.chain)
    /\ Len(Route.chain) > 0

(* C8 *)

\* C8: group isolation law. In every step, the middleware list of a router changes
\* only by a Use call on that very router, which appends to it; a Group,
\* GroupWithPrefix or With call leaves every router there was as it is; and only a
\* Handle call changes a handler of the trie.
IsolationStep ==
    /\ \A q \in DOMAIN routers :
          /\ routers'[q].middlewares # routers[q].middlewares =>
                /\ last'.op = "Use" /\ last'.r = q
                /\ Len(routers'[q].middlewares) > Len(routers[q].middlewares)
                /\ SubSeq(routers'[q].middlewares, 1, Len(routers[q].middlewares))
                     = routers[q].middlewares
          /\ last'.op \in {"Group", "GroupWithPrefix", "With"} => routers'[q] = routers[q]
    /\ last'.op # "Handle" =>
          \A n \in DOMAIN nodes : nodes'[n].handlers = nodes[n].handlers

\* in every state, each sub-router's list holds the middleware put on it and on the
\* sub-routers it descends from, and nothing else
IsolationState ==
    \A q \in DOMAIN routers : routers[q].middlewares = scope[q]

GroupIsolationLaw == []IsolationState /\ [][IsolationStep]_vars

\* two sub-routers of one parent, each with a middleware of its own
IsolationWitness ==
    /\ Len(routers) > 2
    /\ \A q \in 2..Len(routers) : Len(routers[q].middlewares) = 1
    /\ routers[2].middlewares # routers[3].middlewares
    /\ last.op = "Use"

(* C9 *)

\* the function a request ends in: the redirect, or the core of the handler it ran
OutcomeCall ==
    IF resp.outcome = "Redirect" THEN <<"call", "Redirect">>
    ELSE <<"call", resp.handler[Len(resp.handler)]>>

\* C9: root-level middleware wraps the whole routing decision. Every request the
\* root serves, whatever its outcome, enters each middleware of the root once, in
\* the order of registration, before the outcome is produced, and leaves them in
\* the reverse order after it.
RootChainWrapsEveryOutcome ==
    Served =>
        LET c == scope[ROOT]
            t == resp.trace
        IN /\ Len(t) >= 2 * Len(c) + 1
           /\ \A i \in 1..Len(c) :
                 /\ t[i] = <<"pre", c[i]>>
                 /\ t[Len(t) + 1 - i] = <<"post", c[i]>>
                 /\ Entered(c[i]) = 1
           /\ \E i \in (Len(c) + 1)..(Len(t) - Len(c)) : t[i] = OutcomeCall
           /\ resp.outcome \in {"Handler", "NotFound", "MethodNotAllowed", "AutoOptions", "Redirect"}

\* a request that ended in a redirect went through two middleware of the root
RedirectThroughRootChainWitness ==
    /\ resp.outcome = "Redirect"
    /\ Len(scope[ROOT]) > 1

(* C10 *)

\* C10: Use on the root fails once the dispatch handler is built. A Use call on the
\* root in a state where its handler is built panics and changes no router; and the
\* handler, once built, is the chain of the root's middleware list around handleRequest.
UseAfterBuildStep ==
    last'.op = "Use" /\ last'.r = ROOT /\ routers[ROOT].handler # NILH =>
        last'.panic # NoPanic /\ routers' = routers /\ nodes' = nodes

DispatchChainIsRootList ==
    routers[ROOT].handler # NILH =>
        routers[ROOT].handler = routers[ROOT].middlewares \o <<"handleRequest">>

ServedThrough(k) ==
    LET d == dispatchHandler(routers[ROOT])
    IN SubSeq(d, 1, Len(d) - 1) \o nodes[k[1]].handlers[k[2]]

\* C11: middleware added after a route does not affect that route, on the root as on
\* any router. In every step that is a Use call on the root, taken when routes are
\* registered and all of them through sub-routers, every registered route is served
\* through the same middleware after the call as before it.
LaterRootUseLeavesRoutes ==
    [][ /\ last'.op = "Use" /\ last'.r = ROOT
        /\ DOMAIN regs # {}
        /\ \A k \in DOMAIN regs : regs[k].by # ROOT
        => \A k \in DOMAIN regs : ServedThrough(k)' = ServedThrough(k) ]_vars

-----------------------------------------------------------------------------
(* The Allow header, stated on the header itself *)

\* the place of a method name in the alphabet
Rank(m) ==
    CASE m = "CONNECT" -> 1 [] m = "DELETE" -> 2 [] m = "GET" -> 3
      [] m = "HEAD" -> 4 [] m = "OPTIONS" -> 5 [] m = "PATCH" -> 6
      [] m = "POST" -> 7 [] m = "PUT" -> 8 [] m = "TRACE" -> 9
      [] OTHER -> 0

\* the methods a header lists, in the order it lists them: the header is the
\* names with ", " between them
Listed(header) == [i \in 1..((Len(header) + 1) \div 2) |-> header[2 * i - 1]]

\* header is the list of the methods of the set S, each once, in alphabetical order,
\* with a comma and a space between two of them
IsAllowOf(header, S) ==
    LET t == Listed(header)
    IN /\ Len(header) = 2 * Cardinality(S) - 1
       /\ \A i \in 1..Len(header) : i % 2 = 0 => header[i] = ", "
       /\ { t[i] : i \in 1..Len(t) } = S
       /\ \A i \in 1..(Len(t) - 1) : Rank(t[i]) < Rank(t[i + 1])

\* the request matched a node that has no handler for its method, and was not redirected
MethodMissing ==
    /\ Served /\ resp.match # NIL /\ resp.outcome # "Redirect"
    /\ resp.method \notin DOMAIN nodes[resp.match].handlers

(* C12 *)

\* C12: Allow-header completeness. A request that matches a node without a handler
\* for its method is answered with an Allow header that lists the methods registered
\* at the node and OPTIONS, each once, sorted, joined by ", "; by the auto-options
\* handler with 204 when the method is OPTIONS and by the method-not-allowed handler
\* with 405 otherwise.
AllowHeaderComplete ==
    MethodMissing =>
        /\ IsAllowOf(resp.allow, DOMAIN nodes[resp.match].handlers \cup {"OPTIONS"})
        /\ IF resp.method = "OPTIONS"
           THEN resp.outcome = "AutoOptions" /\ resp.status = 204
                /\ resp.trace = <<<<"call", "AutoOptions">>>>
           ELSE resp.outcome = "MethodNotAllowed" /\ resp.status = 405
                /\ resp.trace = <<<<"call", "MethodNotAllowed">>>>

(* C19 *)

\* C19: the Allow header is accurate at the time of the request. Whatever
\* registrations and requests came before, a method-not-allowed or auto-options
\* response names exactly the methods that have a handler at the matched node when
\* the request is served, and OPTIONS.
AllowAccurateAtRequest ==
    resp.outcome \in {"MethodNotAllowed", "AutoOptions"} =>
        { resp.allow[i] : i \in { j \in 1..Len(resp.allow) : j % 2 = 1 } }
            = DOMAIN nodes[resp.match].handlers \cup {"OPTIONS"}

(* C13 *)

\* the request's original path ends in '/'
TrailingSlash == HasSuffix(resp.path, <<SLASH>>)

\* C13: trailing-slash redirect rule. A request is answered with a redirect exactly
\* when RedirectTrailingSlash is on, its path matches a registered route, its
\* normalized path is not "/" and its original path ends in '/'; the redirect's
\* Location is the normalized path, which has no trailing slash, its status is 301
\* for GET and 308 for any other method, and no handler is invoked.
RedirectRule ==
    Served =>
        /\ resp.outcome = "Redirect" <=>
              /\ routers[ROOT].RedirectTrailingSlash
              /\ Matching # {}
              /\ Clean(resp.path) # <<SLASH>>
              /\ TrailingSlash
        /\ resp.outcome = "Redirect" =>
              /\ resp.location = Clean(resp.path)
              /\ ~HasSuffix(resp.location, <<SLASH>>)
              /\ resp.status = IF resp.method = "GET" THEN 301 ELSE 308
              /\ resp.handler = NILH
              /\ resp.trace = <<<<"call", "Redirect">>>>

\* a request other than GET for a registered path with a slash added was redirected
RedirectWitness ==
    /\ resp.outcome = "Redirect" /\ resp.status = 308
    /\ resp.path = resp.location \o <<SLASH>>

(* C14 *)

\* the methods of a list given to Handle, in upper case
Upper(methods) == { ToUpper(methods[i]) : i \in 1..Len(methods) }

\* C14 on a Handle call that succeeds: a list with GET and without HEAD puts the
\* call's handler under GET and under HEAD of the pattern's node; a
\* list of HEAD alone leaves GET of that node as it was, absent if it was absent.
HeadFollowsGetStep ==
    \A a \in DispatchRoutes :
        Handle(ROOT, a[1], a[2], a[3]) /\ last'.panic = NoPanic =>
            LET n == NodeOf(a[1])
                was == IF n \in DOMAIN nodes THEN nodes[n].handlers ELSE <<>>
                now == nodes'[n].handlers
            IN /\ "GET" \in Upper(a[3]) /\ "HEAD" \notin Upper(a[3]) =>
                    /\ "GET" \in DOMAIN now /\ "HEAD" \in DOMAIN now
                    /\ now["GET"] = a[2] /\ now["HEAD"] = now["GET"]
               /\ Upper(a[3]) = {"HEAD"} =>
                    /\ "GET" \in DOMAIN now <=> "GET" \in DOMAIN was
                    /\ "GET" \in DOMAIN was => now["GET"] = was["GET"]

\* C14 on the requests: a node with a GET handler has a HEAD handler; a HEAD request
\* to such a node that is not redirected is served by the node's HEAD handler; and a
\* GET request to a node with HEAD and no GET is answered method-not-allowed.
HeadFollowsGetState ==
    /\ \A n \in DOMAIN nodes :
          "GET" \in DOMAIN nodes[n].handlers => "HEAD" \in DOMAIN nodes[n].handlers
    /\ Served /\ resp.match # NIL /\ resp.outcome # "Redirect" =>
          LET hs == nodes[resp.match].handlers
          IN /\ resp.method = "HEAD" /\ "GET" \in DOMAIN hs =>
                  resp.outcome = "Handler" /\ resp.handler = hs["HEAD"]
             /\ resp.method = "GET" /\ "GET" \notin DOMAIN hs =>
                  resp.outcome = "MethodNotAllowed"

\* C14: registering GET without HEAD registers HEAD on the same node with the same
\* handler, so that HEAD is served by the handler that serves GET; registering HEAD
\* alone does not register GET.
HeadFollowsGet == []HeadFollowsGetState /\ [][HeadFollowsGetStep]_vars

\* a HEAD request was served by the handler of a route registered for GET only
HeadServedWitness ==
    /\ resp.outcome = "Handler" /\ resp.method = "HEAD"
    /\ resp.handler = <<"h">>
    /\ "GET" \in DOMAIN nodes[resp.match].handlers
    /\ nodes[resp.match].handlers["GET"] = resp.handler

(* C17 *)

\* the functions that ran for the request, in order
Calls == SelectSeq(resp.trace, LAMBDA e : e[1] = "call")

\* C17: exactly one terminal outcome per request. Every request runs exactly one of
\* the matched handler, the not-found handler, the method-not-allowed handler, the
\* auto-options handler and the redirect, once, and the response is that outcome's.
ExactlyOneOutcome ==
    Served =>
        /\ Len(Calls) = 1
        /\ resp.outcome \in {"Handler", "NotFound", "MethodNotAllowed", "AutoOptions", "Redirect"}
        /\ Calls[1][2] =
              CASE resp.outcome = "Handler" -> nodes[resp.match].handlers[resp.method][1]
                [] resp.outcome = "NotFound" -> "NotFound"
                [] resp.outcome = "MethodNotAllowed" -> "MethodNotAllowed"
                [] resp.outcome = "AutoOptions" -> "AutoOptions"
                [] resp.outcome = "Redirect" -> "Redirect"
        /\ resp.status =
              CASE resp.outcome = "Handler" -> 200
                [] resp.outcome = "NotFound" -> 404
                [] resp.outcome = "MethodNotAllowed" -> 405
                [] resp.outcome = "AutoOptions" -> 204
                [] resp.outcome = "Redirect" -> IF resp.method = "GET" THEN 301 ELSE 308

\* a request for a matched path with a slash added, whose method has a handler at
\* the node, ended in the redirect alone
OneOutcomeWitness ==
    /\ resp.outcome = "Redirect"
    /\ resp.method \in DOMAIN nodes[resp.match].handlers
    /\ Len(resp.trace) = 1

(* C20 *)

\* C20: order of the dispatch steps. With redirection on, a request with a trailing
\* slash whose path matches no route is answered not-found, never redirected; one
\* whose path matches a route, and is not "/", is redirected also when its method has
\* no handler at the node, without a method-not-allowed response or an Allow header.
RedirectBetweenMatchAndMethod ==
    Served /\ routers[ROOT].RedirectTrailingSlash /\ TrailingSlash =>
        /\ Matching = {} => resp.outcome = "NotFound" /\ resp.location = Str0
        /\ Matching # {} /\ Clean(resp.path) # <<SLASH>>
           /\ (\A p \in Matching : resp.method \notin DOMAIN nodes[NodeOf(p)].handlers) =>
              /\ resp.outcome = "Redirect"
              /\ resp.status \notin {204, 405}
              /\ resp.allow = Str0

\* a request with a trailing slash and a method that has no handler at the matched
\* node was redirected
RedirectBeforeMethodWitness ==
    /\ resp.outcome = "Redirect"
    /\ resp.method \notin DOMAIN nodes[resp.match].handlers

(* C15 *)

\* the name of a parameter segment
NameOf(seg) == SubSeq(seg, 2, Len(seg) - 1)

\* the three cases of a wrong pattern, for the full pattern and the trie ns it is
\* registered in: a '*' before the last segment; a parameter without a name; a
\* parameter at a level where the trie holds a parameter of another name
WildcardNotLast(full) ==
    LET segs == splitPath(full) IN \E i \in 1..(Len(segs) - 1) : segs[i] = STAR

EmptyName(full) ==
    LET segs == splitPath(full) IN \E i \in 1..Len(segs) : segs[i] = segEmpty

NameConflict(full, ns) ==
    LET segs == splitPath(full)
    IN \E i \in 1..Len(segs) :
          LET at == NodeFrom(SubSeq(segs, 1, i - 1), 1, ROOTADDR)
          IN /\ IsParam(segs[i])
             /\ at \in DOMAIN ns
             /\ ns[at].paramChild # NIL
             /\ ns[ns[at].paramChild].segment # NameOf(segs[i])

\* C15 on the calls: a Handle call panics exactly when the prefix and pattern
\* together are wrong in one of the three cases, and a request never panics.
RegistrationFailsStep ==
    /\ \A r \in Routers, p \in RegPatterns :
          Handle(r, p, <<"h">>, <<"GET">>) =>
              LET full == routers[r].prefix \o p
              IN last'.panic # NoPanic <=>
                    WildcardNotLast(full) \/ EmptyName(full) \/ NameConflict(full, nodes)
    /\ last'.op = "ServeHTTP" /\ last'.r = ROOT => last'.panic = NoPanic

\* C15 on the trie: a wildcard node is a leaf, and the registered patterns that put
\* a parameter at one level give it the one name the trie holds there.
RegistrationFailsState ==
    /\ \A n \in DOMAIN nodes :
          /\ nodes[n].wildcardChild # NIL =>
                LET w == nodes[nodes[n].wildcardChild]
                IN w.children = <<>> /\ w.paramChild = NIL /\ w.wildcardChild = NIL
    /\ \A p \in registered :
          LET segs == splitPath(p)
          IN \A i \in 1..Len(segs) :
                /\ segs[i] = STAR => i = Len(segs)
                /\ IsParam(segs[i]) =>
                      /\ NameOf(segs[i]) # Str0
                      /\ nodes[NodeFrom(SubSeq(segs, 1, i), 1, ROOTADDR)].segment = NameOf(segs[i])

\* C15: registration fails, at registration time and never at request time, exactly
\* for a '*' that is not the last segment of the full pattern, for an empty parameter
\* name and for a parameter name other than the one already at that level of the
\* trie; so a wildcard node is always a leaf and a level has one parameter name.
RegistrationFailsExactly == []RegistrationFailsState /\ [][RegistrationFailsStep]_vars

\* a Handle call on a prefix group panicked for a '*' that is the last segment of
\* the prefix and not of the full pattern
PrefixWildcardWitness ==
    /\ last.op = "Handle" /\ last.r # ROOT
    /\ last.panic = "wildcard not at the end"

(* C16 *)

\* where the route of a registration is meant to be: the prefixes of the groups
\* around its router, outermost first, and then its own pattern
PlaceOf(g) == encl[g.by] \o g.pattern

\* C16: a route registered in prefix groups is reachable exactly under the prefixes
\* of all the groups around it followed by its pattern. A request is served by a
\* route only when its path matches that concatenation, and every request whose path
\* and method match the concatenation of some route is served by such a route; the
\* routes of a router outside a group, registered before or after it, and those of
\* another group are where their own groups put them.
PrefixLaw ==
    /\ \A k \in DOMAIN regs : k[1] = NodeOf(PlaceOf(regs[k]))
    /\ Served =>
          /\ resp.outcome = "Handler" => Matches(PlaceOf(Route), resp.urlPath)
          /\ (\E k \in DOMAIN regs :
                  k[2] = resp.method /\ Matches(PlaceOf(regs[k]), resp.urlPath))
                => resp.outcome = "Handler"

\* a request was served by a route registered in a prefix group made in a prefix
\* group, while the root has a route of the same pattern
NestedPrefixWitness ==
    /\ resp.outcome = "Handler"
    /\ Len(splitPath(encl[Route.by])) = 2
    /\ Len(splitPath(resp.urlPath)) = 3
    /\ \E k \in DOMAIN regs : regs[k].by = ROOT /\ regs[k].pattern = Route.pattern

(* C18 *)

\* what a request for path and method gets when it is served alone
Alone(path, method) ==
    LET hr == handleRequest(nodes, routers[ROOT], path, method).resp
    IN [outcome |-> hr.outcome, handler |-> hr.handler, pv |-> hr.pv,
        status |-> hr.status, allow |-> hr.allow]

\* every request that has ended got what it gets when served alone
SameAsAlone ==
    \A t \in Threads :
        conc.req[t].pc = "done" => conc.req[t].res = Alone(conc.req[t].path, conc.req[t].method)

\* no step of a request changes the children or the method table of a node, or the
\* middleware list of a router
RequestsLeaveTables ==
    conc'.serving =>
        /\ DOMAIN nodes' = DOMAIN nodes
        /\ \A n \in DOMAIN nodes :
              /\ nodes'[n].children = nodes[n].children
              /\ nodes'[n].paramChild = nodes[n].paramChild
              /\ nodes'[n].wildcardChild = nodes[n].wildcardChild
              /\ nodes'[n].handlers = nodes[n].handlers
        /\ \A r \in DOMAIN routers : routers'[r].middlewares = routers[r].middlewares

\* C18: concurrent dispatch is safe without locking once registration has ended. In
\* every interleaving of requests, those that are first to build the root's dispatch
\* handler or a node's allow header included, each request gets the handler, path
\* values and Allow header it gets when served alone, and no request changes the
\* trie's children, the method tables or a middleware list.
ConcurrentDispatchSafe == []SameAsAlone /\ [][RequestsLeaveTables]_vars

(* C21 *)

\* the methods a registration with the list `methods` stands for: every method for
\* the empty list, else the list in upper case, with HEAD where it has GET
EffectiveMethods(methods) ==
    IF Len(methods) = 0
    THEN {"GET", "HEAD", "POST", "PUT", "PATCH", "DELETE", "CONNECT", "OPTIONS", "TRACE"}
    ELSE Upper(methods) \cup (IF "GET" \in Upper(methods) THEN {"HEAD"} ELSE {})

\* the handlers of node n in the trie ns, none for a node that is not there
HandlersAt(ns, n) == IF n \in DOMAIN ns THEN ns[n].handlers ELSE <<>>

\* C21 on the calls: a Handle call that succeeds puts its handler under each of its
\* effective methods on the pattern's node, and records itself as the latest
\* registration for them; every other method of that node and every other node
\* keeps its handler and its latest registration; and no step takes a method from
\* a node or changes a handler otherwise.
LastWriterStep ==
    /\ \A a \in LastRoutes :
          Handle(ROOT, a[1], a[2], a[3]) /\ last'.panic = NoPanic =>
              LET n == NodeOf(a[1])
                  E == EffectiveMethods(a[3])
              IN /\ \A m \in E :
                       /\ m \in DOMAIN nodes'[n].handlers
                       /\ nodes'[n].handlers[m] = a[2]
                       /\ regs'[<<n, m>>].handler = a[2]
                       /\ regs'[<<n, m>>].pattern = a[1]
                 /\ \A k \in DOMAIN nodes' : \A m \in DOMAIN nodes'[k].handlers :
                       k # n \/ m \notin E =>
                           /\ m \in DOMAIN HandlersAt(nodes, k)
                           /\ nodes'[k].handlers[m] = nodes[k].handlers[m]
                           /\ regs'[<<k, m>>] = regs[<<k, m>>]
    /\ \A k \in DOMAIN nodes :
          /\ k \in DOMAIN nodes'
          /\ DOMAIN nodes[k].handlers \subseteq DOMAIN nodes'[k].handlers
    /\ last'.op # "Handle" =>
          /\ regs' = regs
          /\ \A k \in DOMAIN nodes' : nodes'[k].handlers = HandlersAt(nodes, k)

\* C21 on the trie and the requests: a node has a handler for exactly the methods
\* with a latest registration, and it is that registration's handler; a request
\* served by a route is served by the handler of the latest registration for its
\* method on the matched node.
LastWriterState ==
    /\ \A n \in DOMAIN nodes :
          /\ DOMAIN nodes[n].handlers = { k[2] : k \in { j \in DOMAIN regs : j[1] = n } }
          /\ \A m \in DOMAIN nodes[n].handlers : nodes[n].handlers[m] = regs[<<n, m>>].handler
    /\ Served /\ resp.match # NIL /\ resp.method \in DOMAIN nodes[resp.match].handlers =>
          /\ resp.outcome = "Handler"
          /\ resp.handler = regs[<<resp.match, resp.method>>].handler
    /\ resp.outcome = "Handler" => resp.method \in DOMAIN nodes[resp.match].handlers

\* C21: registration is last-writer-wins for each trie node and method: the handler
\* served for a method is the one of the most recent registration on the node whose
\* methods, in upper case, with HEAD added to GET and with all methods for none,
\* contained it; a later GET registration replaces an earlier HEAD handler, and no
\* registration removes a method from a node.
LastWriterWins == []LastWriterState /\ [][LastWriterStep]_vars

\* a HEAD request was served by the handler of the GET route, on a node where a
\* HEAD route had been registered by its own pattern
HeadReplacedWitness ==
    /\ resp.outcome = "Handler" /\ resp.method = "HEAD"
    /\ resp.handler = <<"h">>
    /\ Pattern(<<segA>>) \o <<SLASH>> \in registered
    /\ regs[<<resp.match, "HEAD">>].pattern = Pattern(<<segA>>)

(* C22 *)

\* what a request for path q with method m is answered with the trie ns: the
\* handler selected, the node it is taken from and the response status
Answer(ns, q, m) ==
    LET a == handleRequest(ns, routers[ROOT], q, m).resp
    IN <<a.outcome, a.match, a.handler, a.status>>

\* a node made by a registration that failed: no handler at it or below it
RECURSIVE Bare(_)
Bare(n) ==
    /\ DOMAIN nodes[n].handlers = {}
    /\ \A s \in DOMAIN nodes[n].children : Bare(nodes[n].children[s])
    /\ nodes[n].paramChild # NIL => Bare(nodes[n].paramChild)
    /\ nodes[n].wildcardChild # NIL => Bare(nodes[n].wildcardChild)

\* C22 on the calls: a Handle call that panics leaves the answer to every request
\* as it was, and the routes as they were.
FailedRegistrationStep ==
    \A p \in FailPatterns :
        Handle(ROOT, p, <<"h">>, <<"GET">>) /\ last'.panic # NoPanic =>
            /\ \A q \in FailPaths, m \in FailMethods : Answer(nodes', q, m) = Answer(nodes, q, m)
            /\ \A n \in DOMAIN nodes : nodes'[n].handlers = nodes[n].handlers
            /\ \A n \in DOMAIN nodes' \ DOMAIN nodes : nodes'[n].handlers = <<>>
            /\ registered' = registered /\ regs' = regs

\* C22 on the requests: the answer to a request follows from the registrations that
\* succeeded alone: not found exactly when none of their patterns matches the path,
\* else the node of one that matches, and there the handler of the latest
\* registration for the method, or method-not-allowed when it has none.
FailedRegistrationState ==
    Served =>
        /\ resp.outcome = "NotFound" <=> Matching = {}
        /\ resp.outcome # "NotFound" =>
              /\ \E p \in Matching : resp.match = NodeOf(p)
              /\ resp.outcome = "Handler" <=> <<resp.match, resp.method>> \in DOMAIN regs
              /\ resp.outcome = "Handler" =>
                    resp.handler = regs[<<resp.match, resp.method>>].handler
              /\ resp.outcome # "Handler" =>
                    resp.outcome = "MethodNotAllowed" /\ resp.status = 405

\* C22: a registration that fails for a wildcard that is not last, an empty
\* parameter name or a parameter-name conflict does not change routing: with the
\* nodes it made before it failed, every request selects the handler and gets the
\* status it would get had the registration not been attempted.
FailedRegistrationKeepsRouting ==
    []FailedRegistrationState /\ [][FailedRegistrationStep]_vars

\* a registration failed after it made the literal node that the path of a request
\* reaches first, and the request is served by the parameter route beside that node
FailedNodeOnPathWitness ==
    /\ last.op = "Handle" /\ last.panic # NoPanic
    /\ NodeOf(Pattern(<<segA>>)) \in DOMAIN nodes
    /\ Bare(NodeOf(Pattern(<<segA>>)))
    /\ Pattern(<<segX>>) \in registered
    /\ lookup(nodes, Pattern(<<segA>>), <<>>).m = NodeOf(Pattern(<<segX>>))

====
